---------------------------- MODULE Spec2Model ----------------------------
(***************************************************************************)
(* A model of bbxml::parse_xml (XMLParser_Cpp/xml_document.cpp).           *)
(*                                                                         *)
(* The input text is a sequence of one-character strings.  A position is   *)
(* a 1-based index into it, so that position p stands for the iterator     *)
(* text.cbegin() + (p - 1); a sub_match or an iterator pair is a record    *)
(* [first, second] denoting the half-open range [first, second).           *)
(* Every regular expression of the source is modelled by an operator that  *)
(* computes what the ECMAScript backtracking matcher finds for it.         *)
(***************************************************************************)
EXTENDS Integers, Sequences, FiniteSets, TLC

VARIABLES
    text,                   \* parse_xml's argument
    pc,                     \* "decl": before the declaration block; "scan": in the main loop; "done": parse_xml has ended; "destroyed": the caller has let go of the document
    cursor,                 \* cursor.current
    doc_version,            \* doc_version
    doc_attributes,         \* doc_attributes
    nodes,                  \* the xml_node objects made so far, by identity (1 is top_node)
    current_node,           \* current_node (Null after the pop of line 206 found no parent)
    inner_text_before_tag,  \* inner_text_before_tag
    tag_name,               \* the sub_match tag_name of the latest tag head
    result,                 \* how parse_xml ended: "running" until it has
    error_at,               \* the position handed to position_of by the throw (thrown iterator for a foreign exception)
    error_position,         \* the line and the column of the message of the xml_error thrown
    root_node,              \* xml_document::root_node of the returned document
    regex_depth,            \* how many characters a match attempt of std::regex can consume before the stack ends
    text_depth              \* how many nodes, each the child of the one before, inner_text can walk before the stack ends

vars == <<text, pc, cursor, doc_version, doc_attributes, nodes, current_node,
          inner_text_before_tag, tag_name, result, error_at, error_position, root_node,
          regex_depth, text_depth>>

---------------------------------------------------------------------------
(* Characters and strings *)

Chars(str) == [i \in 1..Len(str) |-> SubSeq(str, i, i)]

\* the least element of S, d when S is empty
MinOr(S, d) == IF S = {} THEN d ELSE CHOOSE m \in S : \A n \in S : m <= n

\* nullptr / an expired weak_ptr
Null == 0

\* the object made by std::make_shared at line 103
top_node == 1

\* the vertical tab (the character of code 11), written as it is between the quotes
VerticalTab == ""

\* the regex class \s: the characters std::isspace holds in the "C" locale
WS == {" ", "\t", "\n", "\r", "\f", VerticalTab}

\* the characters the regex atom . does not match
LineTerm == {"\n", "\r"}

\* the regex class \d
Digit == {"0", "1", "2", "3", "4", "5", "6", "7", "8", "9"}

\* the regex class [0-9a-fA-F]
HexDigit == Digit \cup {"a", "b", "c", "d", "e", "f", "A", "B", "C", "D", "E", "F"}

End(s) == Len(s) + 1

Slice(s, first, second) == SubSeq(s, first, second - 1)

\* The matcher of std::regex calls itself once for each character an attempt
\* consumes, and the stack of the process ends: an attempt that consumes more
\* characters than the stack has room for has the process killed (signal 11).
\* The room is no number of the source: it changes with the build, with the
\* quantifier (greedy or lazy) and from one run of the process to the next.
\* With g++ 12 and a stack of 8 MB an attempt of at most MinRegexRun
\* characters returns in every build (-O0, -O1, -O2) and one of MaxRegexRun
\* characters or more is killed in every build; between the two either happens.
MinRegexRun == 20000

MaxRegexRun == 60000

\* An xml_node owns its children (std::vector<std::shared_ptr<xml_node>>), so
\* the destructor of a node calls itself once for each level of the tree under
\* it, and xml_node::inner_text does the same; here too the stack ends and the
\* process is killed.  With g++ 12 and a stack of 8 MB a tree of at most
\* MinNodeDepth levels is destroyed, and walked by inner_text, in every build;
\* one of MaxNodeDepth levels or more has its destruction killed in every
\* build, and one of MaxTextDepth levels or more has inner_text killed in
\* every build; between the two either happens.  The room inner_text finds is
\* that of the run (text_depth); the room a destruction finds is chosen where
\* it happens.
MinNodeDepth == 10000

MaxNodeDepth == 200000

MaxTextDepth == 25000

\* the room the stack may have while s is parsed, between least and most: any
\* from least to most - 1 gives what one of these two gives.  No attempt
\* consumes more characters than s holds and no tree has more levels, so for
\* a short s every room gives the same steps and one stands for all.
Rooms(s, least, most) == IF Len(s) > least THEN {least, most - 1} ELSE {least}

\* what a definition gives where the process is killed: the call does not return
Killed == [killed |-> TRUE]

\* an attempt that starts at first and consumes the characters up to reach
\* uses up the stack
Exhausts(first, reach) == reach - first > regex_depth

\* how far an attempt goes that looks for something len characters long, found
\* at hit: past it, or to the end of s when there is none (hit = 0)
ReachOf(s, hit, len) == IF hit = 0 THEN End(s) ELSE hit + len

\* the first position in [first, second) holding a character of cs, 0 if none
FindChar(s, cs, first, second) ==
    MinOr({i \in first..(second - 1) : s[i] \in cs}, 0)

\* the first position in [first, second) holding a character outside cs, second if none
RunEnd(s, cs, first, second) ==
    MinOr({i \in first..(second - 1) : s[i] \notin cs}, second)

\* where a greedy run of the class cs that starts at first ends, within [first, second)
SkipChars(s, cs, first, second) ==
    IF Exhausts(first, second) /\ Exhausts(first, RunEnd(s, cs, first, second))
    THEN Killed
    ELSE RunEnd(s, cs, first, second)

\* the literal pat lies at position at, within [at, second)
StartsWith(s, pat, at, second) ==
    /\ at + Len(pat) <= second
    /\ \A i \in 1..Len(pat) : s[at + i - 1] = pat[i]

\* the first position in [first, second) where the literal pat lies, 0 if none
FindStr(s, pat, first, second) ==
    MinOr({i \in first..(second - 1) : StartsWith(s, pat, i, second)}, 0)

\* is_space: the range is empty or matches ^\s*$, \s* being greedy
is_space(s, first, second) ==
    IF Exhausts(first, second) /\ Exhausts(first, RunEnd(s, WS, first, second))
    THEN Killed
    ELSE first >= second \/ \A i \in first..(second - 1) : s[i] \in WS

NoMatch == [first |-> 0, second |-> 0]

---------------------------------------------------------------------------
(* Positions in error messages *)

NoPosition == [line |-> 0, column |-> 0]

\* the greatest element of the set of numbers S, d when S is empty
MaxOr(S, d) == IF S = {} THEN d ELSE CHOOSE m \in S : \A n \in S : m >= n

\* std::regex_search(first, second, m, re), re = .*\n, uses up the stack: the
\* attempts start at first and after each line terminator, and .* consumes
\* what lies before the next one
LongLine(s, first, second) ==
    /\ Exhausts(first, second)
    /\ \E a \in {first} \cup {t + 1 : t \in {i \in first..(second - 1) : s[i] \in LineTerm}} :
           Exhausts(a, MinOr({i \in a..(second - 1) : s[i] \in LineTerm}, second))

\* m[0].length() for std::regex_search(from, itr, m, re), re = .*\n, which has
\* no anchor: "." matches no line terminator, so the match ends with the first
\* "\n" of [from, itr) (nl) and begins after the last "\r" before it, at from
\* if there is none.
LineMatched(s, from, nl) ==
    IF LongLine(s, from, nl + 1) THEN Killed
    ELSE nl + 1 - MaxOr({r + 1 : r \in {i \in from..(nl - 1) : s[i] = "\r"}}, from)

\* position_of(itr, from), counting from the line number line.
\* Line 303 advances from by the length of the match, wherever the match began.
RECURSIVE position_of_line(_, _, _, _)
LineCounted(s, itr, from, line, nl) ==
    IF LongLine(s, from, itr) THEN Killed
    ELSE IF nl = 0
    THEN [line |-> line, column |-> itr - from + 1]
    ELSE position_of_line(s, itr, from + LineMatched(s, from, nl), line + 1)

position_of_line(s, itr, from, line) ==
    IF LongLine(s, from, itr) THEN Killed
    ELSE LineCounted(s, itr, from, line, FindChar(s, {"\n"}, from, itr))

position_of(s, itr, from) == position_of_line(s, itr, from, 1)

---------------------------------------------------------------------------
(* Entity validation and decoding *)

\* std::regex_replace(s, std::regex{pat}, rep) for a literal pat: every
\* occurrence, left to right, none overlapping another
RECURSIVE regex_replace(_, _, _)
ReplacedFrom(s, pat, rep, i) ==
    IF i = 0 THEN s
    ELSE SubSeq(s, 1, i - 1) \o rep
            \o regex_replace(SubSeq(s, i + Len(pat), Len(s)), pat, rep)

regex_replace(s, pat, rep) == ReplacedFrom(s, pat, rep, FindStr(s, pat, 1, End(s)))

\* the lookahead of Validates (2) at the "&" of position i uses up the stack:
\* \d+ is greedy
EntityExhausts(s, i, second) ==
    /\ Exhausts(i, second)
    /\ StartsWith(s, <<"#">>, i + 1, second)
    /\ Exhausts(i, RunEnd(s, Digit, i + 2, second))

\* the lookahead of Validates (2) at the "&" of position i, confined to [i, second):
\* lt;|gt;|apos;|quot;|amp;|#\d+;|#x[0-9a-fA-F]{4};
EntityFollows(s, i, second) ==
    IF EntityExhausts(s, i, second) THEN Killed
    ELSE
    \/ StartsWith(s, Chars("lt;"), i + 1, second)
    \/ StartsWith(s, Chars("gt;"), i + 1, second)
    \/ StartsWith(s, Chars("apos;"), i + 1, second)
    \/ StartsWith(s, Chars("quot;"), i + 1, second)
    \/ StartsWith(s, Chars("amp;"), i + 1, second)
    \/ /\ StartsWith(s, <<"#">>, i + 1, second)
       /\ \E e \in {SkipChars(s, Digit, i + 2, second)} :
              e > i + 2 /\ e < second /\ s[e] = ";"
    \/ /\ StartsWith(s, <<"#", "x">>, i + 1, second)
       /\ i + 7 < second
       /\ \A k \in (i + 3)..(i + 6) : s[k] \in HexDigit
       /\ s[i + 7] = ";"

\* the five substitutions with that of "&amp;" first: what it makes is decoded again
UnescapeEntitiesAmpFirst(s) ==
    regex_replace(regex_replace(regex_replace(regex_replace(regex_replace(
        s, Chars("&amp;"), <<"&">>), Chars("&lt;"), <<"<">>), Chars("&gt;"), <<">">>),
        Chars("&apos;"), <<"'">>), Chars("&quot;"), <<"\"">>)

\* the five substitutions of lines 404-409, in their order
UnescapeEntities(s) ==
    regex_replace(regex_replace(regex_replace(regex_replace(regex_replace(
        s, Chars("&lt;"), <<"<">>), Chars("&gt;"), <<">">>), Chars("&apos;"), <<"'">>),
        Chars("&quot;"), <<"\"">>), Chars("&amp;"), <<"&">>)

\* lines 388-410, bad1 being what Validates (1) finds and bad2 the "&" where
\* the search of Validates (2) ends
Unescaped(s, first, second, bad1, bad2) ==
    IF bad1 # 0 THEN [thrown |-> TRUE, at |-> bad1, str |-> <<>>]
    ELSE IF bad2 # 0 /\ EntityExhausts(s, bad2, second) THEN Killed
    ELSE IF bad2 # 0 THEN [thrown |-> TRUE, at |-> bad2, str |-> <<>>]
    ELSE [thrown |-> FALSE, at |-> 0, str |-> UnescapeEntities(Slice(s, first, second))]

\* _unescape_xml_entity on [first, second) with the illegal class illegal_re:
\* thrown tells whether it throws, at the iterator it throws, str what it returns
unescape_xml_entity(s, first, second, illegal_re) ==
    Unescaped(s, first, second,
              FindChar(s, illegal_re, first, second),
              MinOr({i \in first..(second - 1) :
                        s[i] = "&" /\ (EntityExhausts(s, i, second) \/ ~EntityFollows(s, i, second))}, 0))

unescape_xml_inner_text(s, first, second) ==
    unescape_xml_entity(s, first, second, {"<"})

unescape_xml_attribute_value(s, first, second) ==
    unescape_xml_entity(s, first, second, {"<", "'", "\""})

unescape_xml_attribute_value_with_apos(s, first, second) ==
    unescape_xml_entity(s, first, second, {"<", "'"})

---------------------------------------------------------------------------
(* Attribute lists *)

\* std::regex_search(itr, end, m, re) for re = \s+([^=]+)=(["'])([\s\S]*?)\2
\* finds the leftmost start st from which the pattern matches.  From a start st
\* the key must end at the first "=" after st (eq), which must leave room for one
\* white space and one key character and which a quote must follow; the value
\* runs to the first repetition of that quote.
AttributeFrom(s, st, end, eq) ==
    /\ eq >= st + 2
    /\ eq + 1 < end
    /\ s[eq + 1] \in {"\"", "'"}
    /\ FindChar(s, {s[eq + 1]}, eq + 2, end) # 0

\* the leftmost start from which the pattern matches, 0 if none
AttributeBegin(s, itr, end) ==
    MinOr({st \in itr..(end - 1) :
              s[st] \in WS /\ AttributeFrom(s, st, end, FindChar(s, {"="}, st, end))}, 0)

\* how far the attempt from the white space at st goes: [^=]+ is greedy and runs
\* to the first "=" (eq), to the end when there is none; after a quote the
\* value runs to the quote that closes it, to the end when there is none
AttributeReach(s, st, end, eq) ==
    IF eq = 0 THEN end
    ELSE IF eq < st + 2 \/ eq + 1 >= end THEN eq + 1
    ELSE IF s[eq + 1] \notin {"\"", "'"} THEN eq + 1
    ELSE IF FindChar(s, {s[eq + 1]}, eq + 2, end) = 0 THEN end
    ELSE FindChar(s, {s[eq + 1]}, eq + 2, end) + 1

\* the search uses up the stack: it tries every start up to the one that
\* matches (st0), every start when none does
AttributeExhausts(s, itr, end, st0) ==
    /\ Exhausts(itr, end)
    /\ \E st \in itr..(IF st0 = 0 THEN end - 1 ELSE st0) :
           /\ s[st] \in WS
           /\ Exhausts(st, AttributeReach(s, st, end, FindChar(s, {"="}, st, end)))

\* where the match begins, 0 if none
AttributeStart(s, itr, end) ==
    IF AttributeExhausts(s, itr, end, AttributeBegin(s, itr, end)) THEN Killed
    ELSE AttributeBegin(s, itr, end)

\* the groups of the match that starts at st: eq is the "=", ws the end of the
\* white space after st, cl the closing quote
AttributeGroups(s, st, eq, ws, cl) ==
    [matched |-> TRUE,
     m0 |-> [first |-> st, second |-> cl + 1],
     \* \s+ is greedy, and gives one character back when "=" follows the white space
     m1 |-> [first |-> IF ws = eq THEN eq - 1 ELSE ws, second |-> eq],
     m2 |-> s[eq + 1],
     m3 |-> [first |-> eq + 2, second |-> cl]]

AttributeAt(s, st, end, eq) ==
    IF Exhausts(st, end) /\ Exhausts(st, AttributeReach(s, st, end, eq)) THEN Killed
    ELSE AttributeGroups(s, st, eq, SkipChars(s, WS, st, end), FindChar(s, {s[eq + 1]}, eq + 2, end))

AttributeMatch(s, st, end) ==
    IF st = 0
    THEN [matched |-> FALSE, m0 |-> NoMatch, m1 |-> NoMatch, m2 |-> "", m3 |-> NoMatch]
    ELSE AttributeAt(s, st, end, FindChar(s, {"="}, st, end))

AttributeRe(s, itr, end) ==
    IF AttributeExhausts(s, itr, end, AttributeBegin(s, itr, end)) THEN Killed
    ELSE AttributeMatch(s, AttributeStart(s, itr, end), end)

\* attributes[key] = value
MapPut(map, key, value) == (key :> value) @@ map

EmptyMap == <<>>

\* lines 329-334
AttributeValue(s, m) ==
    IF m.m2 = "\""
    THEN unescape_xml_attribute_value(s, m.m3.first, m.m3.second)
    ELSE unescape_xml_attribute_value_with_apos(s, m.m3.first, m.m3.second)

\* parse_xml_attributes from the iterator itr, with the attributes found so far:
\* thrown, the iterator thrown (at), the map returned.
\* Line 336 advances itr by the length of the match, wherever the match began.
RECURSIVE parse_xml_attributes_from(_, _, _, _)
AttributeStored(s, itr, end, attributes, m, value) ==
    IF value = Killed THEN Killed
    ELSE IF value.thrown
    THEN [thrown |-> TRUE, at |-> value.at, attributes |-> EmptyMap]
    ELSE parse_xml_attributes_from(
             s, itr + (m.m0.second - m.m0.first), end,
             MapPut(attributes, Slice(s, m.m1.first, m.m1.second), value.str))

\* lines 327-345; the regex of line 339, ^\s+$, is greedy as that of is_space is
AttributeLoop(s, itr, end, attributes, m) ==
    IF m = Killed THEN Killed
    ELSE IF m.matched
    THEN AttributeStored(s, itr, end, attributes, m, AttributeValue(s, m))
    ELSE IF Exhausts(itr, end) /\ Exhausts(itr, RunEnd(s, WS, itr, end)) THEN Killed
    ELSE IF itr < end /\ ~is_space(s, itr, end)
    THEN [thrown |-> TRUE, at |-> itr, attributes |-> EmptyMap]
    ELSE [thrown |-> FALSE, at |-> 0, attributes |-> attributes]

parse_xml_attributes_from(s, itr, end, attributes) ==
    AttributeLoop(s, itr, end, attributes, AttributeRe(s, itr, end))

parse_xml_attributes(s, itr, end) == parse_xml_attributes_from(s, itr, end, EmptyMap)

---------------------------------------------------------------------------
(* The XML declaration *)

\* bb::regex_search(cursor, m, re) at the start of the text, for
\* re = ^<\?xml\s+version=\"(.+?)\"([\s\S]*?)\?> :
\* p is where \s+ ends, c the quote that closes (.+?), q the "?>"
\* The attempt goes as far as \s+ (to p) when version=" does not follow; as far
\* as (.+?), which stops at a line terminator, when no quote closes it before;
\* past the "?>", or to the end when there is none.
XmlDeclarationGroups(s, p, c, q) ==
    IF /\ Exhausts(1, End(s))
       /\ StartsWith(s, Chars("<?xml"), 1, End(s))
       /\ p > 6
       /\ Exhausts(1, IF ~StartsWith(s, Chars("version=\""), p, End(s)) THEN p
                      ELSE IF c = 0 \/ FindChar(s, LineTerm, p + 9, c) # 0
                      THEN ReachOf(s, FindChar(s, LineTerm, p + 9, End(s)), 0)
                      ELSE ReachOf(s, q, 2))
    THEN Killed
    ELSE IF /\ StartsWith(s, Chars("<?xml"), 1, End(s))
            /\ p > 6
            /\ StartsWith(s, Chars("version=\""), p, End(s))
            /\ c # 0
            /\ \A i \in (p + 9)..(c - 1) : s[i] \notin LineTerm
            /\ q # 0
    THEN [matched |-> TRUE,
          m0 |-> [first |-> 1, second |-> q + 2],
          m1 |-> [first |-> p + 9, second |-> c],
          m2 |-> [first |-> c + 1, second |-> q]]
    ELSE [matched |-> FALSE, m0 |-> NoMatch, m1 |-> NoMatch, m2 |-> NoMatch]

XmlDeclarationEnd(s, p, c) ==
    XmlDeclarationGroups(s, p, c, IF c = 0 THEN 0 ELSE FindStr(s, Chars("?>"), c + 1, End(s)))

\* (.+?) takes one character at least, so its closing quote is sought from p + 10
XmlDeclarationVersion(s, p) ==
    XmlDeclarationEnd(s, p, FindChar(s, {"\""}, p + 10, End(s)))

XmlDeclarationRe(s) == XmlDeclarationVersion(s, RunEnd(s, WS, 6, End(s)))

---------------------------------------------------------------------------
(* The matchers of the main loop *)

\* bb::regex_search(cursor, m, re) for re = ^([^<]*?)<((!--|!\[CDATA\[|[^>\s]*)) :
\* the alternatives are tried in their order, and [^>\s]* is greedy.
\* lt is the first "<", stop the first ">" or white space after it.
TagHeadGroups(s, cur, lt, stop) ==
    IF Exhausts(cur, IF lt = 0 THEN End(s) ELSE stop) THEN Killed
    ELSE IF lt = 0 THEN [matched |-> FALSE, m0 |-> NoMatch, m1 |-> NoMatch, m2 |-> NoMatch]
    ELSE [matched |-> TRUE,
          m0 |-> [first |-> cur, second |-> stop],
          m1 |-> [first |-> cur, second |-> lt],
          m2 |-> [first |-> lt + 1, second |-> stop]]

TagHeadName(s, cur, lt) ==
    TagHeadGroups(s, cur, lt,
        IF StartsWith(s, Chars("!--"), lt + 1, End(s)) THEN lt + 4
        ELSE IF StartsWith(s, Chars("![CDATA["), lt + 1, End(s)) THEN lt + 9
        ELSE MinOr({i \in (lt + 1)..Len(s) : s[i] \in {">"} \cup WS}, End(s)))

TagHeadRe(s, cur) == TagHeadName(s, cur, FindChar(s, {"<"}, cur, End(s)))

\* bb::regex_search(cursor, m, re) for re = ^[^-]*(--[\s\S]?) :
\* [^-]* stops at the first "-" (d), which a second "-" must follow
CommentEndGroups(s, cur, d) ==
    IF Exhausts(cur, ReachOf(s, d, 1)) THEN Killed
    ELSE IF d # 0 /\ d + 1 < End(s) /\ s[d + 1] = "-"
    THEN [matched |-> TRUE,
          m0 |-> [first |-> cur, second |-> IF d + 2 < End(s) THEN d + 3 ELSE d + 2],
          m1 |-> [first |-> d, second |-> IF d + 2 < End(s) THEN d + 3 ELSE d + 2]]
    ELSE [matched |-> FALSE, m0 |-> NoMatch, m1 |-> NoMatch]

CommentEndRe(s, cur) == CommentEndGroups(s, cur, FindChar(s, {"-"}, cur, End(s)))

\* bb::regex_search(cursor, m, re) for re = ^([\s\S]*?\]\]>), q being the first "]]>"
CDataEndGroups(s, cur, q) ==
    IF Exhausts(cur, ReachOf(s, q, 3)) THEN Killed
    ELSE IF q # 0
    THEN [matched |-> TRUE, m0 |-> [first |-> cur, second |-> q + 3], m1 |-> [first |-> cur, second |-> q + 3]]
    ELSE [matched |-> FALSE, m0 |-> NoMatch, m1 |-> NoMatch]

CDataEndRe(s, cur) == CDataEndGroups(s, cur, FindStr(s, Chars("]]>"), cur, End(s)))

\* bb::regex_search(cursor, m, re) for re = ^([\s\S]*?)(/?)> : the lazy group
\* stops before the first ">" (g), or before the "/" that precedes it
TagEndGroups(s, cur, g, slash) ==
    IF Exhausts(cur, ReachOf(s, g, 1)) THEN Killed
    ELSE IF g # 0
    THEN [matched |-> TRUE,
          m0 |-> [first |-> cur, second |-> g + 1],
          m1 |-> [first |-> cur, second |-> IF slash THEN g - 1 ELSE g],
          m2 |-> [first |-> IF slash THEN g - 1 ELSE g, second |-> g]]
    ELSE [matched |-> FALSE, m0 |-> NoMatch, m1 |-> NoMatch, m2 |-> NoMatch]

TagEndSlash(s, cur, g) == TagEndGroups(s, cur, g, g > cur /\ s[g - 1] = "/")

TagEndRe(s, cur) == TagEndSlash(s, cur, FindChar(s, {">"}, cur, End(s)))

\* bb::regex_search(cursor, m, re) for re = ^([^<]*?)(<!--), lt being the first "<"
TrailingCommentGroups(s, cur, lt) ==
    IF Exhausts(cur, ReachOf(s, lt, 1)) THEN Killed
    ELSE IF lt # 0 /\ StartsWith(s, Chars("<!--"), lt, End(s))
    THEN [matched |-> TRUE,
          m0 |-> [first |-> cur, second |-> lt + 4],
          m1 |-> [first |-> cur, second |-> lt],
          m2 |-> [first |-> lt, second |-> lt + 4]]
    ELSE [matched |-> FALSE, m0 |-> NoMatch, m1 |-> NoMatch, m2 |-> NoMatch]

TrailingCommentRe(s, cur) == TrailingCommentGroups(s, cur, FindChar(s, {"<"}, cur, End(s)))

\* validate_tag_name: the iterator it throws, 0 when it returns
validate_tag_name(s, first, second) ==
    FindChar(s, {"<", ">", "'", "\"", "&"}, first, second)

---------------------------------------------------------------------------
(* The tree *)

\* the name given to a text node at line 177
TextName == Chars("#text")

\* a value-initialized xml_node
EmptyNode == [parent |-> Null, name |-> <<>>, attributes |-> EmptyMap, value |-> <<>>, nodes |-> <<>>]

\* node->parent = parent, with the node put in front of the list, not at its end
AttachInFront(ns, parent, node) ==
    [Append(ns, [node EXCEPT !.parent = parent]) EXCEPT ![parent].nodes = <<Len(ns) + 1>> \o @]

\* node->parent = parent; parent->nodes.push_back(node) for a node newly made
Attach(ns, parent, node) ==
    [Append(ns, [node EXCEPT !.parent = parent]) EXCEPT ![parent].nodes = Append(@, Len(ns) + 1)]

\* lines 173-183: a non-blank buffer becomes a text node, the last child of cn
TextMaterialized(ns, cn, buf) ==
    IF ~is_space(buf, 1, End(buf))
    THEN Attach(ns, cn, [EmptyNode EXCEPT !.name = TextName, !.value = buf])
    ELSE ns

\* lines 202-205 with nodes.clear() and nothing else: the text is dropped, not moved
CollapsedWithoutValue(ns, cn) ==
    IF Len(ns[cn].nodes) = 1 /\ ns[ns[cn].nodes[1]].name = TextName
    THEN [ns EXCEPT ![cn].nodes = <<>>]
    ELSE ns

\* lines 202-205: a single child named "#text" gives its value to cn and is dropped
Collapsed(ns, cn) ==
    IF Len(ns[cn].nodes) = 1 /\ ns[ns[cn].nodes[1]].name = TextName
    THEN [ns EXCEPT ![cn].value = ns[ns[cn].nodes[1]].value, ![cn].nodes = <<>>]
    ELSE ns

\* the levels of the tree of node n: as many as the destructor of n, or its
\* inner_text, has calls of itself on the stack at once
RECURSIVE Height(_, _)
Height(ns, n) ==
    1 + MaxOr({Height(ns, ns[n].nodes[i]) : i \in DOMAIN ns[n].nodes}, 0)

\* lines 263-267: the value of each child followed by the inner_text of its children
RECURSIVE inner_text_of_all(_, _)
inner_text_of_all(ns, children) ==
    IF children = <<>> THEN <<>>
    ELSE ns[Head(children)].value \o inner_text_of_all(ns, ns[Head(children)].nodes)
             \o inner_text_of_all(ns, Tail(children))

\* xml_node::inner_text, killed on a tree of more levels than the stack has room for
inner_text(ns, n) ==
    IF Len(ns) > text_depth /\ Height(ns, n) > text_depth THEN Killed
    ELSE ns[n].value \o inner_text_of_all(ns, ns[n].nodes)

---------------------------------------------------------------------------
(* The inputs *)

XmlDecl == Chars("<?xml version=\"1.0\"?>")

\* the concatenations of at most n members of pieces
RECURSIVE Runs(_, _)
Runs(pieces, n) ==
    IF n = 0 THEN {<<>>}
    ELSE Runs(pieces, n - 1) \cup {r \o f : r \in Runs(pieces, n - 1), f \in pieces}

\* the document of main.cpp, lines 142-153
MainSample ==
    Chars("<?xml version=\"1.0\" encoding=\"UTF-8\"?>\n")
    \o Chars("<!--Comment stest stes ets etest -->\n")
    \o Chars("<node>\n")
    \o Chars("<!--Comment stest stes ets etest -->\n")
    \o Chars("    <test value=\"test\">TEST<![CDATA[<ads> Scripting]]>TEST</test>\n")
    \o Chars("    <value>\n")
    \o Chars("        text before test tag&#160;&lt;&#x2663;\n")
    \o Chars("        <test value='\"&apos;test\"'/>\n")
    \o Chars("        text after test tag\n")
    \o Chars("    </value>\n")
    \o Chars("</node>\n")

\* whole documents that take parse_xml through each of its branches
Samples == {
    MainSample,
    XmlDecl \o Chars("<a><!--c--><![CDATA[x]]><b k=\"v\" />t</a>"),
    XmlDecl \o Chars("&<a>"),
    XmlDecl \o Chars("<a&b>"),
    XmlDecl \o Chars("</>"),
    XmlDecl \o Chars("</><a>"),
    XmlDecl \o Chars("<a\fk=\"v\"") \o <<VerticalTab>> \o Chars("j='w'\f/>\f") \o <<VerticalTab>> }

\* how many fragments follow the declaration
MaxFrags == 3

Frags == {
    Chars("<a>"), Chars("</a>"), Chars("</A>"), Chars("</>"),
    Chars("<a />"), Chars("<b/>"),
    Chars("x"), Chars(" "), Chars("&amp;"), Chars("&"),
    Chars("<!---->"), Chars("<!--a-b-->"), Chars("<![CDATA[x]]>"),
    Chars("<a&b>") }

\* a declaration, then at most n fragments of markup and of character data
Inputs(n) == {XmlDecl \o b : b \in Runs(Frags, n)}

\* how many pieces make the character data of an element
MaxRuns == 3

TextPieces == {
    Chars("x"), Chars(" "), Chars("\n"), Chars(">"), Chars("'"), Chars("\""),
    Chars("&"), Chars("&amp;"), Chars("&lt;"), Chars("lt;"), Chars("&#65;") }

\* one element holding one run of character data, of at most n pieces
TextInputs(n) == {XmlDecl \o Chars("<n>") \o t \o Chars("</n>") : t \in Runs(TextPieces, n)}

\* how many pieces make an attribute value
MaxValuePieces == 2

ValuePieces == {
    Chars("v"), Chars("="), Chars(">"), Chars("<"), Chars("'"), Chars("\""),
    Chars("&"), Chars("&amp;"), Chars("&quot;"), Chars("&#x0041;"), Chars("&#x41;") }

\* what precedes the opening quote of an attribute value in an ordinary tag
TagPrefixes == {XmlDecl \o Chars("<a k="), XmlDecl \o Chars("<a j='1' k=")}

\* what precedes it in the declaration
DeclarationPrefixes == {Chars("<?xml version=\"1.0\" k=")}

AttributePrefixes == TagPrefixes \cup DeclarationPrefixes

\* what follows the closing quote of the value and ends the tag
TagSuffixes == {Chars(">"), Chars("/>"), Chars(">&</a>")}

\* the same with something that is no attribute before the end of the tag
LeftoverSuffixes == {Chars("t>"), Chars(" j=\"2\" t/>")}

\* what follows it and ends the declaration
DeclarationSuffixes == {Chars("?>")}

AttributeSuffixes == TagSuffixes \cup LeftoverSuffixes \cup DeclarationSuffixes

Quotes == {"\"", "'"}

\* the values of at most n pieces that can stand between two quotes q
Quotable(n, q) == {v \in Runs(ValuePieces, n) : \A i \in 1..Len(v) : v[i] # q}

\* one attribute value of at most n pieces between quotes, in a tag or in the declaration
AttributeInputs(n) ==
    UNION {{pre \o <<q>> \o v \o <<q>> \o post : v \in Quotable(n, q)} :
           pre \in AttributePrefixes, q \in Quotes, post \in AttributeSuffixes}

\* how many pieces follow the "<!--" of a comment
MaxCommentPieces == 4

CommentPieces == {Chars("a"), Chars("-"), Chars(">")}

\* what precedes the comment: nothing, a root element that has closed, an open element
CommentPrefixes == {<<>>, Chars("<r></r>"), Chars("<r>")}

\* a comment of at most n pieces after its "<!--", closed or not
CommentInputs(n) ==
    {XmlDecl \o pre \o Chars("<!--") \o b : pre \in CommentPrefixes, b \in Runs(CommentPieces, n)}

\* how many pieces lie between two ordinary tags
MaxBufferPieces == 3

BufferPieces == {
    Chars("x"), Chars(" "), Chars("&amp;"), Chars("<![CDATA[&<]]>"), Chars("<![CDATA[ ]]>"),
    Chars("<!--c-->") }

\* the ordinary tag before the pieces, if any, and the one after them
BufferPrefixes == {<<>>, Chars("<r>")}

BufferTails == {Chars("<a>"), Chars("<a />"), Chars("</r>")}

\* character data, CDATA sections and comments, at most n of them, before an
\* ordinary tag; and a run where all of them take part
BufferInputs(n) ==
    {XmlDecl \o pre \o b \o t : pre \in BufferPrefixes, b \in Runs(BufferPieces, n), t \in BufferTails}
        \cup {XmlDecl \o Chars("<r>x<![CDATA[&<]]>&amp;<!--c--> y<a />z</r>")}

\* how many pieces lie between the declaration and the tag that fails
MaxLinePieces == 4

LinePieces == {Chars("\n"), Chars("\r"), Chars("x"), Chars(" ")}

\* what fails after the pieces: a closing tag without its opening tag, a bare
\* "&", an attribute without quotes
LineTails == {Chars("</a>"), Chars("&<a>"), Chars("<a\nk=v>")}

\* a declaration, at most n pieces that break lines or do not, and a failure
LineInputs(n) == {XmlDecl \o b \o t : b \in Runs(LinePieces, n), t \in LineTails}

\* how many pieces make a slice with entities
MaxEntityPieces == 3

EntityPieces == {
    Chars("&lt;"), Chars("&gt;"), Chars("&apos;"), Chars("&quot;"), Chars("&amp;"),
    Chars("lt;"), Chars("&#160;"), Chars("&#x2663;"), Chars("x"), Chars("&") }

\* the slices of at most n pieces, and the five named entities in a row
EntitySlices(n) == Runs(EntityPieces, n) \cup {Chars("&lt;&gt;&apos;&quot;&amp;")}

\* a slice as the character data before a comment, and as an attribute value
EntityInputs(n) ==
    {XmlDecl \o t \o Chars("<!---->") : t \in EntitySlices(n)}
        \cup {XmlDecl \o Chars("<a k='") \o t \o Chars("'/>") : t \in EntitySlices(n)}

\* how many pieces follow the first attribute of an attribute list
MaxPairPieces == 4

PairPieces == {
    Chars(" k=\"v\""), Chars(" k=\"v \""), Chars(" k='u'"), Chars("j='w'"),
    Chars(" j='&'"), Chars("x"), Chars(" ") }

\* what precedes the pieces: a tag with its first attribute, the declaration
\* with its version
PairPrefixes == {XmlDecl \o Chars("<a a=\"1\""), Chars("<?xml version=\"1.0\"")}

\* what ends the tag, what ends the declaration

\* an attribute list of at most n pieces, in a tag or in the declaration
PairInputs(n) ==
    {pre \o b \o (IF Len(pre) > Len(XmlDecl) THEN Chars("/>") ELSE Chars("?>")) : pre \in PairPrefixes, b \in Runs(PairPieces, n)}

\* how many fragments make the content of a tree
MaxTreeFrags == 4

TreeFrags == {
    Chars("<a>"), Chars("</a>"), Chars("<b />"), Chars("x"),
    Chars("<#text k=\"v\">"), Chars("</#text>"), Chars("<#text />") }

\* trees deeper than the fragments reach
TreeSamples == {
    XmlDecl \o Chars("<a><b>x</b></a>"),
    XmlDecl \o Chars("<a>x<b>y</b>z</a>"),
    XmlDecl \o Chars("<a><b>x</b><#text>y<c /></#text></a>") }

\* a declaration, then at most n fragments that open, fill and close elements
TreeInputs(n) == {XmlDecl \o b : b \in Runs(TreeFrags, n)} \cup TreeSamples

\* the parts a declaration is put together from
DeclarationLeads == {<<>>, Chars(" "), Chars("x")}
DeclarationOpenings == {<<>>, Chars("<?xml"), Chars("<xml"), Chars("<?XML")}
DeclarationSpaces == {<<>>, Chars(" "), Chars("\n "), Chars("_")}
DeclarationVersions == {
    <<>>, Chars("version=\"1.0\""), Chars("version=\"0.1\""), Chars("version=\"1.00\""),
    Chars("version=\" 1.0\""), Chars("version=\"\""), Chars("version=\"1.0"),
    Chars("version='1.0'"), Chars("version=\"1\n0\""), Chars("version =\"1.0\""),
    Chars("encoding=\"1.0\"") }
DeclarationRests == {<<>>, Chars(" encoding=\"UTF-8\""), Chars(" e=\"1.0\""), Chars(" x")}
DeclarationEndings == {<<>>, Chars("?>"), Chars(">"), Chars("? >")}
DeclarationBodies == {<<>>, Chars("<r />"), Chars("<r>?></r>")}

\* one of each, in this order, and after them one of bodies
DeclarationInputs(bodies) ==
    {l \o o \o s \o v \o r \o e \o b :
        l \in DeclarationLeads, o \in DeclarationOpenings, s \in DeclarationSpaces,
        v \in DeclarationVersions, r \in DeclarationRests, e \in DeclarationEndings,
        b \in bodies}

---------------------------------------------------------------------------
(* parse_xml *)

\* parse_xml is called with one of the texts of inputs
Called(inputs) ==
    /\ text \in inputs
    /\ regex_depth \in Rooms(text, MinRegexRun, MaxRegexRun)
    /\ text_depth \in Rooms(text, MinNodeDepth, MaxTextDepth)
    /\ pc = "decl"
    /\ cursor = 1
    /\ doc_version = <<>>
    /\ doc_attributes = EmptyMap
    /\ nodes = <<EmptyNode>>
    /\ current_node = top_node
    /\ inner_text_before_tag = <<>>
    /\ tag_name = NoMatch
    /\ result = "running"
    /\ error_at = 0
    /\ error_position = NoPosition
    /\ root_node = Null

Init == Called(Inputs(MaxFrags))

InitText == Called(TextInputs(MaxRuns) \cup Samples)

InitAttributes == Called(AttributeInputs(MaxValuePieces) \cup Samples)

InitComment == Called(CommentInputs(MaxCommentPieces) \cup Samples)

InitPairs == Called(PairInputs(MaxPairPieces) \cup Samples)

InitEntities == Called(EntityInputs(MaxEntityPieces) \cup Samples)

InitLines == Called(LineInputs(MaxLinePieces) \cup Samples)

\* texts that take each loop of parse_xml through several turns
InitTermination ==
    Called(LineInputs(MaxLinePieces) \cup CommentInputs(MaxCommentPieces)
               \cup PairInputs(MaxPairPieces - 2) \cup Samples)

InitBuffer == Called(BufferInputs(MaxBufferPieces) \cup Samples)

InitTree == Called(TreeInputs(MaxTreeFrags) \cup Samples)

InitDeclaration == Called(DeclarationInputs(DeclarationBodies) \cup Samples)

\* throw: parse_xml ends with the failure kind, located at position at, ns
\* being the nodes and buf inner_text_before_tag when it is thrown.  The
\* message of an xml_error is made with position_of, which can have the process
\* killed as every use of std::regex can ("Killed": parse_xml does not end, the
\* process does, and nothing is reported).  The exception then leaves parse_xml
\* and top_node is destroyed with the tree under it, which has the process
\* killed when the tree is deeper than the stack has room for.  The iterator of
\* validate_tag_name has no handler in main.cpp: whether the locals are
\* destroyed before std::terminate is implementation-defined, and they are
\* under a caller that catches it.
Fail(kind, at, tn, ns, buf) ==
    /\ result' \in IF kind = "Killed" \/ (kind # "UncaughtIterator" /\ LongLine(text, 1, at))
                    THEN {"Killed"}
                    ELSE {IF Len(ns) > room /\ Height(ns, top_node) > room THEN "Killed" ELSE kind :
                              room \in Rooms(text, MinNodeDepth, MaxNodeDepth)}
                         \cup (IF kind = "UncaughtIterator" THEN {kind} ELSE {})
    /\ error_at' = IF result' = "Killed" THEN 0 ELSE at
    /\ error_position' = IF result' \in {"UncaughtIterator", "Killed"}
                         THEN NoPosition ELSE position_of(text, at, 1)
    /\ pc' = "done"
    /\ tag_name' = tn
    /\ nodes' = ns
    /\ inner_text_before_tag' = buf
    /\ regex_depth' \in Rooms(text, MinRegexRun, MaxRegexRun)
    /\ UNCHANGED text_depth
    /\ UNCHANGED <<text, cursor, doc_version, doc_attributes, current_node, root_node>>

\* lines 86-99 comparing no more than the first three characters of the version
DeclaredByPrefix(m, version, a) ==
    IF ~StartsWith(version, Chars("1.0"), 1, End(version)) THEN Fail("UnsupportedVersion", m.m1.first, tag_name, nodes, inner_text_before_tag)
    ELSE IF a = Killed THEN Fail("Killed", m.m2.first, tag_name, nodes, inner_text_before_tag)
    ELSE IF a.thrown THEN Fail("IllegalAttributes", a.at, tag_name, nodes, inner_text_before_tag)
    ELSE /\ pc' = "scan"
         /\ cursor' = m.m0.second
         /\ doc_version' = version
         /\ doc_attributes' = a.attributes
         /\ regex_depth' \in Rooms(text, MinRegexRun, MaxRegexRun)
         /\ UNCHANGED text_depth
         /\ UNCHANGED <<text, nodes, current_node, inner_text_before_tag,
                        tag_name, result, error_at, error_position, root_node>>

\* lines 86-99, m being the match of line 82 and a what line 95 gives
Declared(m, version, a) ==
    IF version # Chars("1.0") THEN Fail("UnsupportedVersion", m.m1.first, tag_name, nodes, inner_text_before_tag)
    ELSE IF a = Killed THEN Fail("Killed", m.m2.first, tag_name, nodes, inner_text_before_tag)
    ELSE IF a.thrown THEN Fail("IllegalAttributes", a.at, tag_name, nodes, inner_text_before_tag)
    ELSE /\ pc' = "scan"
         /\ cursor' = m.m0.second
         /\ doc_version' = version
         /\ doc_attributes' = a.attributes
         /\ regex_depth' \in Rooms(text, MinRegexRun, MaxRegexRun)
         /\ UNCHANGED text_depth
         /\ UNCHANGED <<text, nodes, current_node, inner_text_before_tag,
                        tag_name, result, error_at, error_position, root_node>>

XmlDeclarationMatched(m) ==
    IF m = Killed THEN Fail("Killed", cursor, tag_name, nodes, inner_text_before_tag)
    ELSE IF ~m.matched THEN Fail("NoXmlDeclaration", cursor, tag_name, nodes, inner_text_before_tag)
    ELSE Declared(m, Slice(text, m.m1.first, m.m1.second),
                  parse_xml_attributes(text, m.m2.first, m.m2.second))

\* lines 78-100
XmlDeclaration ==
    /\ pc = "decl"
    /\ XmlDeclarationMatched(XmlDeclarationRe(text))

\* lines 111-123: the match h of the tag head with the decoded text before it;
\* killed when the search of line 113 has the process killed.  m[1] is part of
\* what the attempt that matched has consumed, too short to have
\* unescape_xml_inner_text killed.
HeadDecoded(s, h) ==
    IF h = Killed
    THEN [matched |-> FALSE, killed |-> TRUE, m0 |-> NoMatch, m1 |-> NoMatch, m2 |-> NoMatch,
          before |-> [thrown |-> FALSE, at |-> 0, str |-> <<>>],
          name |-> <<>>]
    ELSE IF h.matched
    THEN [matched |-> TRUE, killed |-> FALSE, m0 |-> h.m0, m1 |-> h.m1, m2 |-> h.m2,
          before |-> unescape_xml_inner_text(s, h.m1.first, h.m1.second),
          name |-> Slice(s, h.m2.first, h.m2.second)]
    ELSE [matched |-> FALSE, killed |-> FALSE, m0 |-> h.m0, m1 |-> h.m1, m2 |-> h.m2,
          before |-> [thrown |-> FALSE, at |-> 0, str |-> <<>>],
          name |-> <<>>]

TagHead(s, cur) == HeadDecoded(s, TagHeadRe(s, cur))

\* the loop condition of line 107
InLoop == pc = "scan" /\ cursor < End(text)

InnerTextThrown(h) ==
    IF h.killed THEN Fail("Killed", cursor, tag_name, nodes, inner_text_before_tag)
    ELSE /\ h.matched
         /\ h.before.thrown
         /\ Fail("NoEscapedCharacter", h.before.at, tag_name, nodes, inner_text_before_tag)

\* lines 112-121: the turn of the loop ends parse_xml before the tag is looked at
InnerTextError ==
    /\ InLoop
    /\ InnerTextThrown(TagHead(text, cursor))

CommentSkipped(h, m) ==
    IF m = Killed THEN Fail("Killed", h.m0.second, h.m2, nodes, inner_text_before_tag \o h.before.str)
    ELSE IF ~m.matched THEN Fail("MissingClosingTag", h.m2.first, h.m2, nodes, inner_text_before_tag \o h.before.str)
    ELSE IF Slice(text, m.m1.first, m.m1.second) # Chars("-->")
    THEN Fail("IllegalComment", m.m1.first, h.m2, nodes, inner_text_before_tag \o h.before.str)
    ELSE /\ cursor' = m.m0.second
         /\ inner_text_before_tag' = inner_text_before_tag \o h.before.str
         /\ tag_name' = h.m2
         /\ regex_depth' \in Rooms(text, MinRegexRun, MaxRegexRun)
         /\ UNCHANGED text_depth
         /\ UNCHANGED <<text, pc, doc_version, doc_attributes, nodes, current_node,
                        result, error_at, error_position, root_node>>

CommentHead(h) ==
    /\ h.matched
    /\ ~h.before.thrown
    /\ h.name = Chars("!--")
    /\ CommentSkipped(h, CommentEndRe(text, h.m0.second))

\* lines 125-135
Comment ==
    /\ InLoop
    /\ CommentHead(TagHead(text, cursor))

CDataAppended(h, m) ==
    IF m = Killed THEN Fail("Killed", h.m0.second, h.m2, nodes, inner_text_before_tag \o h.before.str)
    ELSE IF ~m.matched THEN Fail("MissingClosingTag", h.m2.first, h.m2, nodes, inner_text_before_tag \o h.before.str)
    ELSE /\ cursor' = m.m0.second
         /\ inner_text_before_tag' =
                inner_text_before_tag \o h.before.str \o Slice(text, h.m2.second, m.m1.second - 3)
         /\ tag_name' = h.m2
         /\ regex_depth' \in Rooms(text, MinRegexRun, MaxRegexRun)
         /\ UNCHANGED text_depth
         /\ UNCHANGED <<text, pc, doc_version, doc_attributes, nodes, current_node,
                        result, error_at, error_position, root_node>>

CDataHead(h) ==
    /\ h.matched
    /\ ~h.before.thrown
    /\ h.name = Chars("![CDATA[")
    /\ CDataAppended(h, CDataEndRe(text, h.m0.second))

\* lines 136-151
CData ==
    /\ InLoop
    /\ CDataHead(TagHead(text, cursor))

\* lines 153-174: what ends the parse before the tag is dispatched ("" when nothing
\* does); bad is what validate_tag_name throws, e the match of line 161, a what
\* line 166 gives.  The iterator validate_tag_name throws is caught nowhere:
\* it leaves parse_xml as it is, not as an xml_error.  The last case is the
\* is_space of line 174, killed by the white space that inner_text_before_tag
\* begins with.
TagFailure(h, e, bad, a) ==
    IF Len(h.name) = 0 THEN [kind |-> "NoNameTag", at |-> h.m2.first]
    ELSE IF bad # 0 THEN [kind |-> "UncaughtIterator", at |-> bad]
    ELSE IF e = Killed THEN [kind |-> "Killed", at |-> h.m0.second]
    ELSE IF ~e.matched THEN [kind |-> "MissingClosingTag", at |-> h.m2.first]
    ELSE IF a = Killed THEN [kind |-> "Killed", at |-> e.m1.first]
    ELSE IF a.thrown THEN [kind |-> "IllegalAttributes", at |-> a.at]
    ELSE IF /\ Exhausts(1, End(inner_text_before_tag \o h.before.str))
            /\ Exhausts(1, RunEnd(inner_text_before_tag \o h.before.str, WS, 1,
                                  End(inner_text_before_tag \o h.before.str)))
    THEN [kind |-> "Killed", at |-> h.m0.second]
    ELSE [kind |-> "", at |-> 0]

\* lines 152-171 and 185: an ordinary tag as it reaches line 173
TagParsed(h, e, bad, a) ==
    [ordinary |-> TRUE, head |-> h, end |-> e, attributes |-> a.attributes,
     failure |-> TagFailure(h, e, bad, a),
     closing |-> Len(h.name) > 0 /\ h.name[1] = "/",
     independent |-> e # Killed /\ e.m2.first < e.m2.second]

TagEnded(s, h, e) ==
    TagParsed(h, e, validate_tag_name(s, h.m2.first, h.m2.second),
              IF e # Killed /\ e.matched THEN parse_xml_attributes(s, e.m1.first, e.m1.second)
              ELSE [thrown |-> FALSE, at |-> 0, attributes |-> EmptyMap])

\* an ordinary tag is neither a comment nor a CDATA section (line 152)
TagScanned(s, h) ==
    IF h.matched /\ ~h.before.thrown /\ h.name # Chars("!--") /\ h.name # Chars("![CDATA[")
    THEN TagEnded(s, h, TagEndRe(s, h.m0.second))
    ELSE [ordinary |-> FALSE, head |-> h, end |-> NoMatch, attributes |-> EmptyMap,
          failure |-> [kind |-> "", at |-> 0], closing |-> FALSE, independent |-> FALSE]

Tag(s, cur) == TagScanned(s, TagHead(s, cur))

\* inner_text_before_tag after line 117
Buffer(t) == inner_text_before_tag \o t.head.before.str

TagThrown(t) ==
    /\ t.ordinary
    /\ t.failure.kind # ""
    /\ Fail(t.failure.kind, t.failure.at, t.head.m2, nodes, Buffer(t))

\* lines 152-170, when one of them throws
TagRejected ==
    /\ InLoop
    /\ TagThrown(Tag(text, cursor))

\* the tag reaches line 173
Dispatched(t) == t.ordinary /\ t.failure.kind = ""

\* lines 189-198: tag_name.compare("/" + current_node->name) == 0, in either branch
ClosesCurrent(name, open_name) == name = <<"/">> \o open_name

\* the node made at lines 210-213 and 217-220
ElementNode(t) == [EmptyNode EXCEPT !.name = t.head.name, !.attributes = t.attributes]

\* lines 185-208, ns being the nodes after lines 173-183.  When the pop finds no
\* parent, the assert of line 207 aborts the program, or, built with NDEBUG, lets
\* it go on with a null current_node.
Closed(t, ns) ==
    IF t.independent
    THEN Fail("ClosingTagSelfClosing", t.end.m2.first, t.head.m2, ns, <<>>)
    ELSE IF ~ClosesCurrent(t.head.name, ns[current_node].name)
    THEN Fail("MismatchedClosingTag", t.head.m2.first, t.head.m2, ns, <<>>)
    ELSE IF DOMAIN t.attributes # {}
    THEN Fail("ClosingTagWithAttributes", t.head.m2.first, t.head.m2, ns, <<>>)
    ELSE /\ nodes' = Collapsed(ns, current_node)
         /\ current_node' = ns[current_node].parent
         /\ cursor' = t.end.m0.second
         /\ inner_text_before_tag' = <<>>
         /\ tag_name' = t.head.m2
         /\ \/ /\ ns[current_node].parent = Null
               /\ result' = "AssertionFailed"
               /\ pc' = "done"
            \/ UNCHANGED <<result, pc>>
         /\ regex_depth' \in Rooms(text, MinRegexRun, MaxRegexRun)
         /\ UNCHANGED text_depth
         /\ UNCHANGED <<text, doc_version, doc_attributes, error_at, error_position, root_node>>

ClosingHead(t) ==
    /\ Dispatched(t)
    /\ t.closing
    /\ current_node # Null \/ (is_space(Buffer(t), 1, End(Buffer(t))) /\ t.independent)
    /\ Closed(t, IF current_node = Null THEN nodes
                 ELSE TextMaterialized(nodes, current_node, Buffer(t)))

\* lines 173-208
ClosingTag ==
    /\ InLoop
    /\ ClosingHead(Tag(text, cursor))

IndependentHead(t) ==
    /\ Dispatched(t)
    /\ ~t.closing
    /\ t.independent
    /\ current_node # Null
    /\ nodes' = Attach(TextMaterialized(nodes, current_node, Buffer(t)), current_node, ElementNode(t))
    /\ cursor' = t.end.m0.second
    /\ inner_text_before_tag' = <<>>
    /\ tag_name' = t.head.m2
    /\ regex_depth' \in Rooms(text, MinRegexRun, MaxRegexRun)
    /\ UNCHANGED text_depth
    /\ UNCHANGED <<text, pc, doc_version, doc_attributes, current_node, result, error_at, error_position, root_node>>

\* lines 173-183 and 209-215
IndependentTag ==
    /\ InLoop
    /\ IndependentHead(Tag(text, cursor))

OpeningHead(t) ==
    /\ Dispatched(t)
    /\ ~t.closing
    /\ ~t.independent
    /\ current_node # Null
    /\ nodes' = Attach(TextMaterialized(nodes, current_node, Buffer(t)), current_node, ElementNode(t))
    /\ current_node' = Len(nodes')
    /\ cursor' = t.end.m0.second
    /\ inner_text_before_tag' = <<>>
    /\ tag_name' = t.head.m2
    /\ regex_depth' \in Rooms(text, MinRegexRun, MaxRegexRun)
    /\ UNCHANGED text_depth
    /\ UNCHANGED <<text, pc, doc_version, doc_attributes, result, error_at, error_position, root_node>>

\* lines 173-183 and 216-223
OpeningTag ==
    /\ InLoop
    /\ OpeningHead(Tag(text, cursor))

NullHead(t) ==
    /\ Dispatched(t)
    /\ current_node = Null
    /\ ~is_space(Buffer(t), 1, End(Buffer(t))) \/ ~(t.closing /\ t.independent)
    /\ result' = "UndefinedBehaviour"
    /\ pc' = "done"
    /\ tag_name' = t.head.m2
    /\ regex_depth' \in Rooms(text, MinRegexRun, MaxRegexRun)
    /\ UNCHANGED text_depth
    /\ UNCHANGED <<text, cursor, doc_version, doc_attributes, nodes, current_node,
                   inner_text_before_tag, error_at, error_position, root_node>>

\* lines 179, 189, 214, 221 with a null current_node (an NDEBUG build, after the pop
\* of line 206 found no parent): the behaviour is undefined
NullDereference ==
    /\ InLoop
    /\ NullHead(Tag(text, cursor))

\* lines 230-245: the loop over trailing comments from position cur
RECURSIVE SkipTrailingComments(_, _)
TrailingCommentEnded(s, cur, m, c) ==
    IF c = Killed THEN [kind |-> "Killed", at |-> cur, cursor |-> cur]
    ELSE IF ~c.matched THEN [kind |-> "MissingClosingTag", at |-> m.m2.first, cursor |-> cur]
    ELSE IF Slice(s, c.m1.first, c.m1.second) # Chars("-->")
    THEN [kind |-> "IllegalComment", at |-> c.m1.first, cursor |-> cur]
    ELSE SkipTrailingComments(s, c.m0.second)

TrailingCommentFound(s, cur, m) ==
    IF m = Killed THEN [kind |-> "Killed", at |-> cur, cursor |-> cur]
    ELSE IF ~m.matched THEN [kind |-> "", at |-> 0, cursor |-> cur]
    ELSE TrailingCommentEnded(s, cur, m, CommentEndRe(s, m.m0.second))

SkipTrailingComments(s, cur) == TrailingCommentFound(s, cur, TrailingCommentRe(s, cur))

\* lines 252-256
RootOf(ns) == IF Len(ns[top_node].nodes) > 0 THEN Head(ns[top_node].nodes) ELSE Null

\* lines 246-257, t being what the loop over trailing comments gives.  On return
\* top_node is destroyed with its children but the first, which the document
\* holds: the process is killed when one of them is deeper than the stack has
\* room for.
Returned(t, root) ==
    IF t.kind # "" THEN Fail(t.kind, t.at, tag_name, nodes, inner_text_before_tag)
    ELSE IF /\ Exhausts(t.cursor, End(text))
            /\ Exhausts(t.cursor, RunEnd(text, WS, t.cursor, End(text)))
    THEN Fail("Killed", t.cursor, tag_name, nodes, inner_text_before_tag)
    ELSE IF ~is_space(text, t.cursor, End(text))
    THEN Fail("IllegalFormatTrailingContent", t.cursor, tag_name, nodes, inner_text_before_tag)
    ELSE \E room \in Rooms(text, MinNodeDepth, MaxNodeDepth) :
             IF /\ root # Null
                /\ Len(nodes) > room
                /\ Height([nodes EXCEPT ![top_node].nodes = Tail(@)], top_node) > room
             THEN Fail("Killed", t.cursor, tag_name, nodes, inner_text_before_tag)
             ELSE /\ result' = "ok"
                  /\ pc' = "done"
                  /\ cursor' = t.cursor
                  /\ root_node' = root
                  /\ nodes' = IF root # Null THEN [nodes EXCEPT ![root].parent = Null] ELSE nodes
                  /\ regex_depth' \in Rooms(text, MinRegexRun, MaxRegexRun)
                  /\ UNCHANGED text_depth
                  /\ UNCHANGED <<text, doc_version, doc_attributes, current_node,
                                 inner_text_before_tag, tag_name, error_at, error_position>>

\* lines 107 and 114 (the loop ends), then lines 229-257
EndOfInput ==
    /\ pc = "scan"
    /\ ~(cursor < End(text)
             /\ (TagHeadRe(text, cursor) = Killed \/ TagHeadRe(text, cursor).matched))
    /\ Returned(SkipTrailingComments(text, cursor), RootOf(nodes))

\* the caller lets go of the document parse_xml returned (main.cpp: the end of
\* the block that holds doc): root_node is destroyed with the tree under it,
\* and the process is killed when the tree is deeper than the stack has room for
DocumentDestroyed ==
    /\ pc = "done"
    /\ result = "ok"
    /\ pc' = "destroyed"
    /\ result' \in {IF root_node # Null /\ Len(nodes) > room /\ Height(nodes, root_node) > room
                     THEN "Killed" ELSE "ok" :
                         room \in Rooms(text, MinNodeDepth, MaxNodeDepth)}
    /\ regex_depth' \in Rooms(text, MinRegexRun, MaxRegexRun)
    /\ UNCHANGED text_depth
    /\ UNCHANGED <<text, cursor, doc_version, doc_attributes, nodes, current_node,
                   inner_text_before_tag, tag_name, error_at, error_position, root_node>>

Next ==
    \/ XmlDeclaration
    \/ InnerTextError
    \/ Comment
    \/ CData
    \/ TagRejected
    \/ ClosingTag
    \/ IndependentTag
    \/ OpeningTag
    \/ NullDereference
    \/ EndOfInput
    \/ DocumentDestroyed

Spec == Init /\ [][Next]_vars

SpecText == InitText /\ [][Next]_vars

SpecAttributes == InitAttributes /\ [][Next]_vars

SpecDeclaration == InitDeclaration /\ [][Next]_vars

SpecComment == InitComment /\ [][Next]_vars

SpecTree == InitTree /\ [][Next]_vars

SpecBuffer == InitBuffer /\ [][Next]_vars

\* parse_xml runs in one thread that nothing suspends: until it has ended, it
\* goes on taking its steps.  This is the weak fairness of the steps of
\* parse_xml, with "a step of parse_xml can be taken" written as pc being
\* neither "done" nor "destroyed".
Scheduled == []<>(pc \in {"done", "destroyed"}) \/ []<><<Next>>_vars

SpecTermination == InitTermination /\ [][Next]_vars /\ Scheduled

SpecLines == InitLines /\ [][Next]_vars

SpecEntities == InitEntities /\ [][Next]_vars

SpecPairs == InitPairs /\ [][Next]_vars

---------------------------------------------------------------------------
(* The claims *)

\* the kinds of failure parse_xml throws as an xml_error
XmlErrorKinds == {
    "NoXmlDeclaration", "UnsupportedVersion", "IllegalAttributes", "NoEscapedCharacter",
    "MissingClosingTag", "IllegalComment", "NoNameTag", "ClosingTagSelfClosing",
    "MismatchedClosingTag", "ClosingTagWithAttributes", "IllegalFormatTrailingContent" }

\* the step handles a closing tag that carries no self-closing marker
PlainClosingTag == ClosingTag /\ ~Tag(text, cursor).independent

\* C1: a closing tag met while current_node is the top-level container makes
\* parse_xml fail with MismatchedClosingTag, whatever the name of the tag, so that
\* current_node is never popped past the container.
C1_ClosingTagAtTopIsMismatched ==
    [][(PlainClosingTag /\ current_node = top_node)
          => (result' = "MismatchedClosingTag" /\ current_node' # Null)]_vars

\* s holds at cur a self-closing tag without attributes, its name ending before e
SelfClosingTagAt(s, cur, e) ==
    /\ s[cur] = "<"
    /\ e > cur + 1
    /\ \A i \in (cur + 1)..(e - 1) : s[i] \notin WS \cup {"<", ">", "/", "!", "&", "'", "\""}
    /\ StartsWith(s, Chars("/>"), SkipChars(s, WS, e, End(s)), End(s))

\* C2: a self-closing tag, with or without white space between its name and "/",
\* appends to current_node one element that has exactly that name, no child and an
\* empty value, and leaves current_node as it is.
C2_SelfClosingTagAppendsElement ==
    [][\A e \in (cursor + 2)..Len(text) :
          (pc = "scan" /\ current_node # Null /\ SelfClosingTagAt(text, cursor, e))
          => /\ current_node' = current_node
             /\ Len(nodes') > Len(nodes)
             /\ nodes'[Len(nodes')] =
                    [EmptyNode EXCEPT !.name = Slice(text, cursor + 1, e), !.parent = current_node]
             /\ nodes'[current_node].nodes[Len(nodes'[current_node].nodes)] = Len(nodes')]_vars

\* the children of node n that are elements
ElementsOf(ns, n) == {i \in 1..Len(ns[n].nodes) : ns[ns[n].nodes[i]].name # TextName}

\* C3: whenever parse_xml returns a document, at most one element was attached to
\* the top-level container.
C3_SingleRoot ==
    result = "ok" => Cardinality(ElementsOf(nodes, top_node)) <= 1

\* C4: parse_xml never returns a document while the pending text, gathered around
\* comments and CDATA sections after the last ordinary tag, is not blank.
C4_NoPendingTextAtReturn ==
    result = "ok" => is_space(inner_text_before_tag, 1, End(inner_text_before_tag))

\* C5: whenever parse_xml ends by throwing, what it throws is an xml_error.
C5_OnlyTypedErrors ==
    (pc = "done" /\ result \notin {"ok", "AssertionFailed", "UndefinedBehaviour", "Killed"})
        => result \in XmlErrorKinds

\* the value v, written between quotes q, holds a character its quoting forbids
\* raw, or an "&" that begins none of the entities
ValueDefect(v, q) ==
    \/ \E i \in 1..Len(v) : v[i] \in (IF q = "\"" THEN {"<", "'", "\""} ELSE {"<", "'"})
    \/ \E i \in 1..Len(v) : v[i] = "&" /\ ~EntityFollows(v, i, End(v))

\* s is what a gives, a value between two quotes q, and what z gives
HoldsValue(s, a, q, z) ==
    /\ StartsWith(s, a \o <<q>>, 1, End(s))
    /\ End(s) - Len(z) - 1 >= Len(a) + 2
    /\ StartsWith(s, <<q>> \o z, End(s) - Len(z) - 1, End(s))
    /\ \A i \in (Len(a) + 2)..(End(s) - Len(z) - 2) : s[i] # q

\* that value
ValueHeld(s, a, z) == Slice(s, Len(a) + 2, End(s) - Len(z) - 1)

\* s is a complete tag or a complete declaration holding an attribute value with a defect
DefectiveAttributeText(s) ==
    \/ \E a \in TagPrefixes, q \in Quotes, z \in TagSuffixes \cup LeftoverSuffixes :
           HoldsValue(s, a, q, z) /\ ValueDefect(ValueHeld(s, a, z), q)
    \/ \E a \in DeclarationPrefixes, q \in Quotes, z \in DeclarationSuffixes :
           HoldsValue(s, a, q, z) /\ ValueDefect(ValueHeld(s, a, z), q)

\* C6: a forbidden raw character or a malformed "&...;" sequence inside an
\* attribute value, of an ordinary tag or of the declaration, makes parse_xml
\* fail with NoEscapedCharacter, the kind the same defect produces in inner text.
C6_ValueDefectIsNoEscapedCharacter ==
    (pc = "done" /\ DefectiveAttributeText(text)) => result = "NoEscapedCharacter"

\* s holds at cur a comment that ends at e with "-->", no "--" lying in between
WellFormedCommentAt(s, cur, e) ==
    /\ StartsWith(s, Chars("<!--"), cur, End(s))
    /\ e >= cur + 4
    /\ StartsWith(s, Chars("-->"), e, End(s))
    /\ \A i \in (cur + 4)..(e - 1) : ~(s[i] = "-" /\ s[i + 1] = "-")

\* C7: a well-formed comment never makes parse_xml fail; the step that processes
\* it moves the cursor past it and leaves current_node, every node and the
\* pending text as they are.
C7_WellFormedCommentIsSkipped ==
    [][\A e \in (cursor + 4)..Len(text) :
          (pc = "scan" /\ WellFormedCommentAt(text, cursor, e))
          => /\ result' = "running"
             /\ cursor' = e + 3
             /\ nodes' = nodes
             /\ current_node' = current_node
             /\ inner_text_before_tag' = inner_text_before_tag]_vars

\* C8: a closing tag without attributes and without self-closing marker is
\* accepted if and only if its name is the name of current_node; when accepted,
\* current_node becomes its parent, which is an element still open or the
\* top-level container; otherwise parse_xml fails with MismatchedClosingTag.
C8_ClosingTagPopsToParent ==
    [][(PlainClosingTag /\ DOMAIN Tag(text, cursor).attributes = {})
          => IF Slice(text, tag_name'.first + 1, tag_name'.second) = nodes[current_node].name
             THEN /\ result' = "running"
                  /\ current_node' = nodes[current_node].parent
                  /\ current_node' \in DOMAIN nodes'
             ELSE result' = "MismatchedClosingTag"]_vars

\* the text is the declaration and one element n holding character data only
IsTextElement(s) ==
    /\ StartsWith(s, XmlDecl \o Chars("<n>"), 1, End(s))
    /\ End(s) - 4 >= Len(XmlDecl) + 4
    /\ StartsWith(s, Chars("</n>"), End(s) - 4, End(s))
    /\ \A i \in (Len(XmlDecl) + 4)..(End(s) - 5) : s[i] # "<"

\* its character data
ElementText(s) == Slice(s, Len(XmlDecl) + 4, End(s) - 4)

\* every "&" of t begins an entity
ValidText(t) == \A i \in 1..Len(t) : t[i] = "&" => EntityFollows(t, i, End(t))

\* t with each of the five named entities replaced by its character, in one pass
RECURSIVE DecodedText(_)
DecodedText(t) ==
    IF t = <<>> THEN <<>>
    ELSE IF StartsWith(t, Chars("&lt;"), 1, End(t)) THEN <<"<">> \o DecodedText(SubSeq(t, 5, Len(t)))
    ELSE IF StartsWith(t, Chars("&gt;"), 1, End(t)) THEN <<">">> \o DecodedText(SubSeq(t, 5, Len(t)))
    ELSE IF StartsWith(t, Chars("&apos;"), 1, End(t)) THEN <<"'">> \o DecodedText(SubSeq(t, 7, Len(t)))
    ELSE IF StartsWith(t, Chars("&quot;"), 1, End(t)) THEN <<"\"">> \o DecodedText(SubSeq(t, 7, Len(t)))
    ELSE IF StartsWith(t, Chars("&amp;"), 1, End(t)) THEN <<"&">> \o DecodedText(SubSeq(t, 6, Len(t)))
    ELSE <<Head(t)>> \o DecodedText(Tail(t))

\* parse_xml has returned the document of a text element
TextElementParsed ==
    pc = "done" /\ IsTextElement(text) /\ ValidText(ElementText(text))

\* C9 (amended): for an element written <n>T</n>, T being one run of character
\* data that passes the validation of inner text, parse_xml returns a document
\* and inner_text() of its root is T after entity decoding when T is empty or
\* holds a character that is no white space, and is empty when T is white space only.
C9_InnerTextRoundTrip ==
    TextElementParsed
        => /\ result = "ok"
           /\ root_node # Null
           /\ inner_text(nodes, root_node) =
                  IF is_space(ElementText(text), 1, End(ElementText(text))) THEN <<>>
                  ELSE DecodedText(ElementText(text))

\* a text that decoding changes has been parsed
C9_Witness ==
    /\ TextElementParsed
    /\ result = "ok"
    /\ DecodedText(ElementText(text)) # ElementText(text)
    /\ inner_text(nodes, root_node) = DecodedText(ElementText(text))

\* C9 as stated: inner_text() of the node is T after entity decoding for every
\* such T, white space only included.
C9_InnerTextRoundTripOfEveryText ==
    TextElementParsed
        => /\ result = "ok"
           /\ root_node # Null
           /\ inner_text(nodes, root_node) = DecodedText(ElementText(text))

\* s starts with "<?xml" and white space that ends before p
DeclarationOpensAt(s, p) ==
    /\ StartsWith(s, Chars("<?xml"), 1, End(s))
    /\ p > 6
    /\ \A i \in 6..(p - 1) : s[i] \in WS

\* s starts with "<?xml", white space, version="X" for an X that is not empty and
\* lies on one line, and holds "?>" after it
HasDeclaration(s) ==
    \E p \in 7..Len(s) :
        /\ DeclarationOpensAt(s, p)
        /\ StartsWith(s, Chars("version=\""), p, End(s))
        /\ \E c \in (p + 10)..Len(s) :
               /\ s[c] = "\""
               /\ \A i \in (p + 9)..(c - 1) : s[i] \notin LineTerm
               /\ \E q \in (c + 1)..Len(s) : StartsWith(s, Chars("?>"), q, End(s))

\* the X of version="X" is 1.0
HasVersion10(s) ==
    \E p \in 7..Len(s) :
        DeclarationOpensAt(s, p) /\ StartsWith(s, Chars("version=\"1.0\""), p, End(s))

\* C10: parse_xml fails with NoXmlDeclaration unless the input starts, at its
\* first character, with "<?xml", white space, version="X" and a later "?>"; when
\* it does, parse_xml fails with UnsupportedVersion if and only if X is not 1.0;
\* the version of every returned document is 1.0.
C10_DeclarationOutcomes ==
    pc = "done"
        => /\ result = "NoXmlDeclaration" <=> ~HasDeclaration(text)
           /\ HasDeclaration(text) => (result = "UnsupportedVersion" <=> ~HasVersion10(text))
           /\ text \in {<<>>, Chars("<?xml?>"), Chars(" <?xml version=\"1.0\"?>"),
                        Chars("<xml version=\"1.0\">")} => result = "NoXmlDeclaration"
           /\ result = "ok" => doc_version = Chars("1.0")

\* a declaration with another version has been refused
C10_Witness ==
    /\ pc = "done"
    /\ HasDeclaration(text)
    /\ ~HasVersion10(text)
    /\ result = "UnsupportedVersion"
    /\ Slice(text, error_at, error_at + 3) = Chars("0.1")

\* the first position from b at which s holds "--", 0 if there is none
FirstDashes(s, b) == FindStr(s, Chars("--"), b, End(s))

\* C11: after "<!--", reaching the end of the input without meeting any "--"
\* makes parse_xml fail with MissingClosingTag, and meeting a "--" that ">" does
\* not follow at once, be it the last text of the input, makes it fail with
\* IllegalComment, before the root element, inside it and after it.
C11_CommentFailureKinds ==
    [][(pc = "scan" /\ StartsWith(text, Chars("<!--"), cursor, End(text)))
          => /\ FirstDashes(text, cursor + 4) = 0 => result' = "MissingClosingTag"
             /\ (/\ FirstDashes(text, cursor + 4) # 0
                 /\ ~StartsWith(text, Chars("-->"), FirstDashes(text, cursor + 4), End(text)))
                    => result' = "IllegalComment"]_vars

\* from position i on, s holds nothing but white space and well-formed comments
RECURSIVE BlankOrComments(_, _)
BlankOrComments(s, i) ==
    IF i >= End(s) THEN TRUE
    ELSE IF s[i] \in WS THEN BlankOrComments(s, i + 1)
    ELSE /\ StartsWith(s, Chars("<!--"), i, End(s))
         /\ FirstDashes(s, i + 4) # 0
         /\ WellFormedCommentAt(s, i, FirstDashes(s, i + 4))
         /\ BlankOrComments(s, FirstDashes(s, i + 4) + 3)

\* C12: a valid declaration followed by no element, only by white space and
\* well-formed comments, parses successfully with the root absent; and the root of
\* a returned document is absent only when no element followed the declaration.
C12_RootAbsentWithoutElement ==
    (pc = "done" /\ StartsWith(text, XmlDecl, 1, End(text)))
        => /\ BlankOrComments(text, Len(XmlDecl) + 1) => (result = "ok" /\ root_node = Null)
           /\ (result = "ok" /\ root_node = Null)
                  => \A n \in DOMAIN nodes : n = top_node \/ nodes[n].name = TextName

\* C13: at every moment every node named "#text" is a text node: it has no
\* child and no attribute.
C13_TextNodesAreLeaves ==
    \A n \in DOMAIN nodes :
        nodes[n].name = TextName => (nodes[n].nodes = <<>> /\ nodes[n].attributes = EmptyMap)

\* the node n of ns is a text node: named "#text", without child and attribute
IsTextNode(ns, n) ==
    /\ ns[n].name = TextName
    /\ ns[n].nodes = <<>>
    /\ ns[n].attributes = EmptyMap

\* the nodes when the closing tag at the cursor is compared with current_node:
\* the text before the tag, when not blank, is the last child of current_node
BuiltAtClosingTag == TextMaterialized(nodes, current_node, Buffer(Tag(text, cursor)))

\* the closing tag at the cursor is accepted and closes an element
ElementClosed ==
    /\ PlainClosingTag
    /\ current_node # top_node
    /\ current_node' = nodes[current_node].parent

\* the nodes of the tree under n, n included
RECURSIVE TreeOf(_, _)
TreeOf(ns, n) ==
    {n} \cup UNION {TreeOf(ns, ns[n].nodes[i]) : i \in 1..Len(ns[n].nodes)}

\* the nodes from n up to the top-level container: the elements still open when
\* n is current_node
RECURSIVE OpenFrom(_, _)
OpenFrom(ns, n) == IF n = Null THEN {} ELSE {n} \cup OpenFrom(ns, ns[n].parent)

\* C14: when a closing tag closes an element whose only child is a text node,
\* the text becomes the value of the element and the element has no child left;
\* in every other case the children stay as built and the value stays empty.  In
\* a returned tree no node has both a value and children, and no closed element
\* has a text node as its only child.
C14_CollapseOfSingleTextChild ==
    /\ [][ElementClosed
             => IF /\ Len(BuiltAtClosingTag[current_node].nodes) = 1
                   /\ IsTextNode(BuiltAtClosingTag, BuiltAtClosingTag[current_node].nodes[1])
                THEN /\ nodes'[current_node].value =
                            BuiltAtClosingTag[BuiltAtClosingTag[current_node].nodes[1]].value
                     /\ nodes'[current_node].nodes = <<>>
                ELSE /\ nodes'[current_node].value = <<>>
                     /\ nodes'[current_node].nodes = BuiltAtClosingTag[current_node].nodes]_vars
    /\ []((result = "ok" /\ root_node # Null)
             => \A n \in TreeOf(nodes, root_node) :
                   /\ nodes[n].value = <<>> \/ nodes[n].nodes = <<>>
                   /\ n \notin OpenFrom(nodes, current_node)
                         => ~(Len(nodes[n].nodes) = 1 /\ IsTextNode(nodes, nodes[n].nodes[1])))

\* C15: when parse_xml returns a document no element is still open: every
\* element made by an opening tag has been closed by its closing tag.
C15_NoOpenElementAtReturn ==
    result = "ok" => OpenFrom(nodes, current_node) \subseteq {top_node}

\* C16: the root of a returned document is an element made from a tag, never a
\* node named "#text" made from the text before a tag.
C16_RootIsElement ==
    (result = "ok" /\ root_node # Null) => nodes[root_node].name # TextName

\* The anchored parse of an attribute list: a pair is read only where the last
\* one ended (itr), the next is read where this one ends, and what follows the
\* last pair is white space.  accepted, and the map when accepted.
RECURSIVE ReferencePairs(_, _, _, _)
ReferencePairRead(s, end, attributes, m, value) ==
    IF value.thrown
    THEN [accepted |-> FALSE, attributes |-> EmptyMap]
    ELSE ReferencePairs(s, m.m0.second, end,
                        MapPut(attributes, Slice(s, m.m1.first, m.m1.second), value.str))

ReferencePairs(s, itr, end, attributes) ==
    IF /\ itr < end
       /\ s[itr] \in WS
       /\ AttributeFrom(s, itr, end, FindChar(s, {"="}, itr, end))
    THEN ReferencePairRead(s, end, attributes, AttributeMatch(s, itr, end),
                           AttributeValue(s, AttributeMatch(s, itr, end)))
    ELSE [accepted |-> is_space(s, itr, end), attributes |-> attributes]

\* the text is the declaration and one self-closing tag a whose attribute list
\* runs from first to second
TagPairsAt(s, first, second) ==
    /\ first = Len(XmlDecl) + 3
    /\ second = End(s) - 2
    /\ first <= second
    /\ StartsWith(s, XmlDecl \o Chars("<a "), 1, End(s))
    /\ StartsWith(s, Chars("/>"), second, End(s))
    /\ \A i \in first..(second - 1) : s[i] \notin {">", "/", "<"}

\* the text is a declaration of version 1.0 whose attribute list runs from
\* first to second
DeclarationPairsAt(s, first, second) ==
    /\ first = Len(XmlDecl) - 1
    /\ second = End(s) - 2
    /\ first <= second
    /\ StartsWith(s, Chars("<?xml version=\"1.0\""), 1, End(s))
    /\ FindStr(s, Chars("?>"), first, End(s)) = second

\* C17: an attribute list is accepted if and only if its anchored parse accepts
\* it, with the map of the anchored parse; it fails with IllegalAttributes
\* otherwise.
C17_AttributesAsAnchoredParse ==
    /\ (pc = "done" /\ TagPairsAt(text, Len(XmlDecl) + 3, End(text) - 2))
          => IF ReferencePairs(text, Len(XmlDecl) + 3, End(text) - 2, EmptyMap).accepted
             THEN /\ result = "ok"
                  /\ nodes[root_node].attributes =
                        ReferencePairs(text, Len(XmlDecl) + 3, End(text) - 2, EmptyMap).attributes
             ELSE result = "IllegalAttributes"
    /\ (pc = "done" /\ DeclarationPairsAt(text, Len(XmlDecl) - 1, End(text) - 2))
          => IF ReferencePairs(text, Len(XmlDecl) - 1, End(text) - 2, EmptyMap).accepted
             THEN /\ result = "ok"
                  /\ doc_attributes =
                        ReferencePairs(text, Len(XmlDecl) - 1, End(text) - 2, EmptyMap).attributes
             ELSE result = "IllegalAttributes"

\* the text is the declaration, character data without "<" and an empty comment
IsTextBeforeComment(s) ==
    /\ StartsWith(s, XmlDecl, 1, End(s))
    /\ FindChar(s, {"<"}, Len(XmlDecl) + 1, End(s)) = End(s) - 7
    /\ StartsWith(s, Chars("<!---->"), End(s) - 7, End(s))

TextBeforeComment(s) == Slice(s, Len(XmlDecl) + 1, End(s) - 7)

\* the text is the declaration and a self-closing tag a with the one attribute
\* k, its value between single quotes
IsValueOfK(s) ==
    /\ StartsWith(s, XmlDecl \o Chars("<a k='"), 1, End(s))
    /\ End(s) - 3 >= Len(XmlDecl) + 7
    /\ StartsWith(s, Chars("'/>"), End(s) - 3, End(s))
    /\ \A i \in (Len(XmlDecl) + 7)..(End(s) - 4) : s[i] \notin {"'", "<", ">", "/"}

ValueOfK(s) == Slice(s, Len(XmlDecl) + 7, End(s) - 3)

\* C18: what the five substitutions make of a slice that passes validation is
\* what one pass from left to right makes of it, each named entity of the slice
\* replaced once: in the character data kept before a comment, and in an
\* attribute value.
C18_DecodingIsSinglePass ==
    /\ (pc = "scan" /\ cursor = End(text) /\ IsTextBeforeComment(text))
          => /\ ValidText(TextBeforeComment(text))
             /\ inner_text_before_tag = DecodedText(TextBeforeComment(text))
    /\ (result = "ok" /\ IsValueOfK(text))
          => /\ ValidText(ValueOfK(text))
             /\ nodes[root_node].attributes = (Chars("k") :> DecodedText(ValueOfK(text)))

\* "&amp;lt;" before a comment has been decoded, to "&lt;"
C18_Witness ==
    /\ pc = "scan"
    /\ cursor = End(text)
    /\ IsTextBeforeComment(text)
    /\ TextBeforeComment(text) = Chars("&amp;lt;")
    /\ inner_text_before_tag = Chars("&lt;")

\* the position after the last "\n" before p, the first position when there is none
LineStartBefore(s, p) == MaxOr({i + 1 : i \in {j \in 1..(p - 1) : s[j] = "\n"}}, 1)

\* C19: the line of an error message is 1 plus the number of "\n" before the
\* position of the failure, and its column is 1 plus the number of characters
\* between the start of that line and the position.
C19_LineAndColumn ==
    result \in XmlErrorKinds
        => /\ error_position.line = 1 + Cardinality({j \in 1..(error_at - 1) : text[j] = "\n"})
           /\ error_position.column = 1 + (error_at - LineStartBefore(text, error_at))

\* every match the attribute loop can find in [first, second) advances itr,
\* and not beyond second
AttributeLoopAdvances(s, first, second) ==
    \A itr \in first..second :
        AttributeRe(s, itr, second).matched
            => /\ AttributeRe(s, itr, second).m0.second > AttributeRe(s, itr, second).m0.first
               /\ itr + (AttributeRe(s, itr, second).m0.second
                            - AttributeRe(s, itr, second).m0.first) <= second

\* every match the line counting loop can find before itr advances from, and
\* not beyond itr
LineLoopAdvances(s, itr) ==
    \A from \in 1..itr :
        FindChar(s, {"\n"}, from, itr) # 0
            => /\ LineMatched(s, from, FindChar(s, {"\n"}, from, itr)) > 0
               /\ from + LineMatched(s, from, FindChar(s, {"\n"}, from, itr)) <= itr

\* C20: parse_xml ends, and it ends returning a document or failing (with an
\* xml_error or with what validate_tag_name throws; an abort, a step of
\* undefined behaviour and a kill of the process are none of the two).  A turn
\* of the main loop that does not end it advances the cursor, within the text;
\* so do a match of the attribute loop, of the loop over trailing comments and
\* of the line counting loop with their positions; and when the tag head is not
\* found at the cursor, what follows starts from that same cursor.
C20_Termination ==
    /\ <>(pc = "done")
    /\ [](pc = "done" => result \in {"ok", "UncaughtIterator"} \cup XmlErrorKinds)
    /\ [][(pc = "scan" /\ pc' = "scan") => (cursor' > cursor /\ cursor' <= End(text))]_vars
    /\ [](pc = "decl" /\ XmlDeclarationRe(text).matched
             => AttributeLoopAdvances(text, XmlDeclarationRe(text).m2.first,
                                      XmlDeclarationRe(text).m2.second))
    /\ [](InLoop /\ Tag(text, cursor).ordinary /\ Tag(text, cursor).end.matched
             => AttributeLoopAdvances(text, Tag(text, cursor).end.m1.first,
                                      Tag(text, cursor).end.m1.second))
    /\ [](pc = "scan"
             => \A cur \in cursor..End(text) :
                   TrailingCommentRe(text, cur).matched
                       => TrailingCommentRe(text, cur).m0.second > cur)
    /\ [](result \in XmlErrorKinds => LineLoopAdvances(text, error_at))
    /\ [][(pc = "scan" /\ ~TagHeadRe(text, cursor).matched)
             => \/ result' = "ok" /\ cursor' = cursor
                \/ result' = "IllegalFormatTrailingContent" /\ error_at' = cursor]_vars

\* the buffer when the "<" at lt is met: what was gathered, and the character
\* data from the cursor to lt after entity decoding
PendingAt(lt) == inner_text_before_tag \o DecodedText(Slice(text, cursor, lt))

\* the step goes on from a comment that begins at lt: the buffer is what was pending
CommentKeepsBuffer(lt) == inner_text_before_tag' = PendingAt(lt)

\* the step goes on from a CDATA section that begins at lt: its content, up to
\* the first "]]>", follows what was pending, as it is written
CDataJoinsBuffer(lt) ==
    inner_text_before_tag' =
        PendingAt(lt) \o Slice(text, lt + 9, FindStr(text, Chars("]]>"), lt + 9, End(text)))

\* the step goes on from an ordinary tag at lt, closing or not, buf being the
\* buffer: the nodes made are one text node holding buf when buf is not blank,
\* then the element when the tag is not a closing tag; the text node is a child
\* of current_node, listed before the element; the buffer is empty
BufferMaterialized(lt, buf, blank, closing) ==
    /\ inner_text_before_tag' = <<>>
    /\ current_node # Null
    /\ Len(nodes') = Len(nodes) + (IF blank THEN 0 ELSE 1) + (IF closing THEN 0 ELSE 1)
    /\ ~blank => nodes'[Len(nodes) + 1] =
                    [EmptyNode EXCEPT !.parent = current_node, !.name = TextName, !.value = buf]
    /\ \A n \in (Len(nodes) + 1)..Len(nodes') :
           ~(blank /\ closing) => nodes'[n].parent = current_node
    /\ IF closing
       THEN \/ nodes'[current_node].nodes =
                  nodes[current_node].nodes \o [i \in 1..(Len(nodes') - Len(nodes)) |-> Len(nodes) + i]
            \/ nodes'[current_node].nodes = <<>>
       ELSE nodes'[current_node].nodes =
                  nodes[current_node].nodes \o [i \in 1..(Len(nodes') - Len(nodes)) |-> Len(nodes) + i]

\* what a step that meets the "<" at lt and throws nothing does to the buffer
BufferStep(lt) ==
    IF StartsWith(text, Chars("<!--"), lt, End(text)) THEN CommentKeepsBuffer(lt)
    ELSE IF StartsWith(text, Chars("<![CDATA["), lt, End(text)) THEN CDataJoinsBuffer(lt)
    ELSE BufferMaterialized(lt, PendingAt(lt),
                            is_space(PendingAt(lt), 1, End(PendingAt(lt))),
                            lt + 1 < End(text) /\ text[lt + 1] = "/")

\* C21: the character data, entity-decoded, and the contents of CDATA sections,
\* as written, are gathered in their order in one buffer, comments adding nothing;
\* the next ordinary tag makes of a buffer that is not blank one text node, child of
\* current_node, before the tag is handled, drops a blank one, and leaves the
\* buffer empty.
C21_TextGatheredBetweenTags ==
    [][(/\ InLoop
        /\ FindChar(text, {"<"}, cursor, End(text)) # 0
        /\ result' \notin XmlErrorKinds \cup {"UncaughtIterator"})
          => BufferStep(FindChar(text, {"<"}, cursor, End(text)))]_vars

\* the places of n in the children lists: <<p, i>> when n is the i-th child of p
Listings(ns, n) ==
    {pi \in UNION {{<<p, i>> : i \in DOMAIN ns[p].nodes} : p \in DOMAIN ns} :
        ns[pi[1]].nodes[pi[2]] = n}

\* n is in one children list only, once, and the list is that of its parent
ListedByParent(ns, n) ==
    /\ Cardinality(Listings(ns, n)) = 1
    /\ \A pi \in Listings(ns, n) : pi[1] = ns[n].parent

\* the children of p are in the order in which they were made
InOrderOfCreation(ns, p) ==
    \A i, j \in DOMAIN ns[p].nodes : i < j => ns[p].nodes[i] < ns[p].nodes[j]

\* a step leaves the children of p as they are, or puts nodes it has made, the
\* text before the tag first, at their end, or (lines 202-205) clears them
ChildrenKeptOrExtended(p) ==
    \/ nodes'[p].nodes = <<>>
    \/ /\ Len(nodes'[p].nodes) >= Len(nodes[p].nodes)
       /\ SubSeq(nodes'[p].nodes, 1, Len(nodes[p].nodes)) = nodes[p].nodes
       /\ \A i \in (Len(nodes[p].nodes) + 1)..Len(nodes'[p].nodes) :
              nodes'[p].nodes[i] = Len(nodes) + (i - Len(nodes[p].nodes))

\* C22: while the tree is built, every node reached from the top-level container,
\* the container apart, is in exactly one children list, exactly once, and that
\* list is the one of the node its parent names; every children list is in the
\* order in which its members were made, and a step only puts the nodes it makes
\* at the end of a list, or clears the list.  In a returned document the root
\* has no parent and every other node is listed once, by its parent.
C22_ParentAndChildrenAgree ==
    /\ [](\A n \in TreeOf(nodes, top_node) \ {top_node} :
             (result = "ok" /\ n = root_node) \/ ListedByParent(nodes, n))
    /\ [](\A p \in TreeOf(nodes, top_node) : InOrderOfCreation(nodes, p))
    /\ [][\A p \in DOMAIN nodes : ChildrenKeptOrExtended(p)]_vars
    /\ []((result = "ok" /\ root_node # Null) =>
             /\ nodes[root_node].parent = Null
             /\ \A n \in TreeOf(nodes, root_node) \ {root_node} : ListedByParent(nodes, n))

\* a document is returned whose tree has an element below the root with two
\* children or more, a text node among them
C22_Witness ==
    /\ result = "ok"
    /\ root_node # Null
    /\ \E n \in TreeOf(nodes, root_node) \ {root_node} :
          /\ Len(nodes[n].nodes) >= 2
          /\ \E i \in DOMAIN nodes[n].nodes : IsTextNode(nodes, nodes[n].nodes[i])

=============================================================================
